---------------------------- MODULE Spec2Model ----------------------------
(***************************************************************************)
(* Model of code-diff (src/src/code_diff): the change-to-syntax mapper of  *)
(* ast_mapper.py, the node taxonomy of languages.py and the command-line   *)
(* driver of cli.py with its collaborators git.py, diff_parser.py and      *)
(* output.py.                                                              *)
(*                                                                         *)
(* A syntax tree is a record of sequences indexed by node id.  Ids are     *)
(* pre-order numbers, so the children of a node, in source order, are the  *)
(* ids whose parent it is, in ascending order.  Rows are 0-based as        *)
(* tree-sitter reports them; the mapper converts them to 1-based lines.    *)
(* The leaf tokens of a node (identifier, name, ...) are kept per node in  *)
(* tree.toks; they come before the node's structural children.             *)
(***************************************************************************)
EXTENDS Integers, Sequences, FiniteSets, TLC

VARIABLES
    pc,               \* position of the run
    lang,             \* lang_info.name of the mapper call
    tree,             \* the parsed tree of source_code (no nodes: source_code is "")
    changed_lines,    \* the changed_lines argument
    visited,          \* node ids in the order _find_containing_nodes was called on them
    emitted,          \* results as appended by the traversal, before the sort
    filtered_results, \* the containment pass's list
    returned,         \* the list map_changes_to_ast returns
    from_ref,         \* --from
    working,          \* --working
    git_outcome,      \* what git did for run_git_diff
    diff_result,      \* DiffResult of run_git_diff
    file_changes,     \* parse_diff's list
    idx,              \* index of the next file_change of the loop
    reads,            \* per file of the loop so far, what reading its source gave
    file_outputs,     \* file_outputs of main
    echoed,           \* messages written with click.echo, in order
    report,           \* the report written (file or stdout), <<>> when none
    exit_code,        \* the process's exit status, -1 while running
    fn_arg,           \* the arguments of a helper of ast_mapper.py called on its own
    fn_result         \* what that call returned

mapVars == <<lang, tree, changed_lines, visited, emitted, filtered_results, returned>>
cliVars == <<from_ref, working, git_outcome, diff_result, file_changes,
             idx, reads, file_outputs, echoed, report, exit_code>>
fnVars == <<fn_arg, fn_result>>
vars == <<pc, mapVars, cliVars, fnVars>>

-----------------------------------------------------------------------------
(* Bounds *)

\* Lines of a source file are 1..MaxLine.
MaxLine == 2
\* A diff names at most MaxFiles files.
MaxFiles == 2
\* A node whose name is resolved on its own has at most MaxChildren children.
MaxChildren == 3
\* A node whose signature is cut on its own has at most MaxNodeLines lines of text.
MaxNodeLines == 7

-----------------------------------------------------------------------------
(* Values *)

\* Python's None (a parent that is absent, a ref that is not given).
None == "<None>"
\* The sentinel _get_node_name returns when no child yields a name.
ANONYMOUS == "<anonymous>"

\* Python truthiness of a str | None value: None and "" are falsy.
Truthy(s) == s # None /\ s # ""

RECURSIVE SeqToSet(_)
SeqToSet(s) == IF s = <<>> THEN {} ELSE {Head(s)} \cup SeqToSet(Tail(s))

Contains(s, x) == \E i \in 1..Len(s) : s[i] = x

-----------------------------------------------------------------------------
(* languages.py *)

\* NODE_TYPES, each table in the dict's insertion order.
NODE_TYPES(language) ==
    CASE language = "python" ->
           << [category |-> "function", types |-> <<"function_definition">>],
              [category |-> "class", types |-> <<"class_definition">>],
              [category |-> "method", types |-> <<"function_definition">>],
              [category |-> "import", types |-> <<"import_statement", "import_from_statement">>] >>
      [] language = "javascript" ->
           << [category |-> "function", types |-> <<"function_declaration", "arrow_function", "function_expression">>],
              [category |-> "class", types |-> <<"class_declaration">>],
              [category |-> "method", types |-> <<"method_definition">>],
              [category |-> "import", types |-> <<"import_statement">>] >>
      [] language \in {"typescript", "tsx"} ->
           << [category |-> "function", types |-> <<"function_declaration", "arrow_function", "function_expression">>],
              [category |-> "class", types |-> <<"class_declaration">>],
              [category |-> "method", types |-> <<"method_definition">>],
              [category |-> "import", types |-> <<"import_statement">>],
              [category |-> "interface", types |-> <<"interface_declaration">>],
              [category |-> "type", types |-> <<"type_alias_declaration">>] >>
      [] language = "go" ->
           << [category |-> "function", types |-> <<"function_declaration">>],
              [category |-> "method", types |-> <<"method_declaration">>],
              [category |-> "struct", types |-> <<"type_declaration">>],
              [category |-> "interface", types |-> <<"type_declaration">>],
              [category |-> "import", types |-> <<"import_declaration">>] >>
      [] language = "rust" ->
           << [category |-> "function", types |-> <<"function_item">>],
              [category |-> "struct", types |-> <<"struct_item">>],
              [category |-> "enum", types |-> <<"enum_item">>],
              [category |-> "impl", types |-> <<"impl_item">>],
              [category |-> "trait", types |-> <<"trait_item">>],
              [category |-> "import", types |-> <<"use_declaration">>] >>
      [] language = "java" ->
           << [category |-> "function", types |-> <<"method_declaration">>],
              [category |-> "class", types |-> <<"class_declaration">>],
              [category |-> "interface", types |-> <<"interface_declaration">>],
              [category |-> "import", types |-> <<"import_declaration">>] >>
      [] language = "c" ->
           << [category |-> "function", types |-> <<"function_definition">>],
              [category |-> "struct", types |-> <<"struct_specifier">>] >>
      [] language = "cpp" ->
           << [category |-> "function", types |-> <<"function_definition">>],
              [category |-> "class", types |-> <<"class_specifier">>],
              [category |-> "struct", types |-> <<"struct_specifier">>] >>
      [] language = "ruby" ->
           << [category |-> "function", types |-> <<"method", "singleton_method">>],
              [category |-> "class", types |-> <<"class">>],
              [category |-> "module", types |-> <<"module">>] >>
      [] OTHER ->
           << [category |-> "function", types |-> <<>>],
              [category |-> "class", types |-> <<>>] >>

\* The languages _get_language has a grammar for; every other name yields None.
GrammarLanguages == {"python", "javascript", "typescript", "tsx", "go", "rust"}

\* EXTENSION_MAP, for the suffixes the model's paths use.
EXTENSION_MAP(suffix) ==
    CASE suffix = ".py" -> "python"
      [] suffix = ".go" -> "go"
      [] suffix = ".java" -> "java"
      [] OTHER -> None

\* detect_language: the path's suffix looked up in EXTENSION_MAP.
detect_language(path) == EXTENSION_MAP(path.suffix)

\* get_language_info: None when the language has no grammar or building
\* its parser raises (loads is FALSE), else the language's name (the
\* taxonomy is NODE_TYPES of that name).
get_language_info(language, loads) ==
    IF language \in GrammarLanguages /\ loads THEN language ELSE None

-----------------------------------------------------------------------------
(* ast_mapper.py: names, parents, categories *)

NameChildTypes == {"identifier", "name", "property_identifier", "type_identifier"}

\* The inner loop over a variable_declarator's children: the first
\* identifier or name child, as a one-element sequence, or found unchanged.
RECURSIVE DeclaratorScan(_, _)
DeclaratorScan(subs, found) ==
    IF subs = <<>> THEN found
    ELSE IF Head(subs).type \in {"identifier", "name"} THEN <<Head(subs)>>
    ELSE DeclaratorScan(Tail(subs), found)

\* The outer loop of _get_node_name; name_node is <<>> for None.  A child of
\* one of the four name types ends the loop; a variable_declarator child
\* only ends its own inner loop.
RECURSIVE NameScan(_, _)
NameScan(children, name_node) ==
    IF children = <<>> THEN name_node
    ELSE IF Head(children).type \in NameChildTypes THEN <<Head(children)>>
    ELSE IF Head(children).type = "variable_declarator"
         THEN NameScan(Tail(children), DeclaratorScan(Head(children).children, name_node))
    ELSE NameScan(Tail(children), name_node)

\* node.children of node n: its leaf tokens, then its structural children.
RECURSIVE KidSeqFrom(_, _, _)
KidSeqFrom(t, n, c) ==
    IF c > Len(t.parent) THEN <<>>
    ELSE IF t.parent[c] = n THEN <<c>> \o KidSeqFrom(t, n, c + 1)
    ELSE KidSeqFrom(t, n, c + 1)

KidSeq(t, n) == KidSeqFrom(t, n, n + 1)

NodeChildren(t, n) ==
    t.toks[n] \o
    [i \in 1..Len(KidSeq(t, n)) |->
        [type |-> t.type[KidSeq(t, n)[i]], text |-> "",
         children |-> t.toks[KidSeq(t, n)[i]]]]

_get_node_name(t, n) ==
    LET name_node == NameScan(NodeChildren(t, n), <<>>)
    IN  IF name_node # <<>> THEN name_node[1].text ELSE ANONYMOUS

ClassLikeTypes == {"class_definition", "class_declaration", "class_specifier",
                   "struct_specifier", "impl_item"}

\* The while loop of _get_parent_name, from ancestor p upward (0: no node).
RECURSIVE ParentWalk(_, _)
ParentWalk(t, p) ==
    IF p = 0 THEN None
    ELSE IF t.type[p] \in ClassLikeTypes /\ _get_node_name(t, p) # ANONYMOUS
         THEN _get_node_name(t, p)
    ELSE ParentWalk(t, t.parent[p])

\* A walk that begins at the node itself.
_get_parent_name_FromSelf(t, n) == ParentWalk(t, n)

\* "parent = node.parent" and the while loop.
_get_parent_name(t, n) == ParentWalk(t, t.parent[n])

RECURSIVE FirstCategory(_, _)
FirstCategory(table, node_type) ==
    IF table = <<>> THEN None
    ELSE IF Contains(Head(table).types, node_type) THEN Head(table).category
    ELSE FirstCategory(Tail(table), node_type)

_categorize_node_type(node_type, language) ==
    FirstCategory(NODE_TYPES(language), node_type)

-----------------------------------------------------------------------------
(* ast_mapper.py: signatures.  Text is a sequence of one-character strings. *)

\* str.split(sep): the pieces between the separators, at least one piece.
RECURSIVE SplitAcc(_, _, _)
SplitAcc(s, sep, piece) ==
    IF s = <<>> THEN <<piece>>
    ELSE IF Head(s) = sep THEN <<piece>> \o SplitAcc(Tail(s), sep, <<>>)
    ELSE SplitAcc(Tail(s), sep, Append(piece, Head(s)))

Split(s, sep) == SplitAcc(s, sep, <<>>)

\* sep.join(parts)
RECURSIVE Join(_, _)
Join(parts, sep) ==
    IF parts = <<>> THEN <<>>
    ELSE IF Len(parts) = 1 THEN parts[1]
    ELSE parts[1] \o <<sep>> \o Join(Tail(parts), sep)

Whitespace == {" ", "\t", "\n", "\r"}

RECURSIVE LStrip(_)
LStrip(s) == IF s # <<>> /\ Head(s) \in Whitespace THEN LStrip(Tail(s)) ELSE s

RECURSIVE RStrip(_)
RStrip(s) ==
    IF s # <<>> /\ s[Len(s)] \in Whitespace THEN RStrip(SubSeq(s, 1, Len(s) - 1)) ELSE s

\* str.strip()
Strip(s) == RStrip(LStrip(s))

\* line.rstrip().endswith(":")
EndsWithColon(line) == RStrip(line) # <<>> /\ RStrip(line)[Len(RStrip(line))] = ":"

\* "{" in line
HasBrace(line) == Contains(line, "{")

\* line.split("{")[0].strip()
BeforeBrace(line) == Strip(Split(line, "{")[1])

\* The Python loop: lines are appended up to and with the first that ends
\* with a colon.
RECURSIVE PythonSigParts(_, _)
PythonSigParts(lines, sig_parts) ==
    IF lines = <<>> THEN sig_parts
    ELSE IF EndsWithColon(Head(lines)) THEN Append(sig_parts, Head(lines))
    ELSE PythonSigParts(Tail(lines), Append(sig_parts, Head(lines)))

\* The loop over lines[1:]: a line with a brace is cut and ends the loop;
\* any other line is appended and ends the loop when len(sig_parts) > 5.
RECURSIVE BraceSigParts(_, _)
BraceSigParts(lines, sig_parts) ==
    IF lines = <<>> THEN sig_parts
    ELSE IF HasBrace(Head(lines)) THEN Append(sig_parts, BeforeBrace(Head(lines)))
    ELSE IF Len(Append(sig_parts, Head(lines))) > 5 THEN Append(sig_parts, Head(lines))
    ELSE BraceSigParts(Tail(lines), Append(sig_parts, Head(lines)))

_get_signature(source_bytes, start_byte, end_byte, language) ==
    LET node_text == SubSeq(source_bytes, start_byte + 1, end_byte)
        lines == Split(node_text, "\n")
    IN  IF lines = <<>> THEN <<>>
        ELSE IF language = "python" THEN Join(PythonSigParts(lines, <<>>), "\n")
        ELSE IF HasBrace(lines[1]) THEN BeforeBrace(lines[1])
        ELSE Join(BraceSigParts(Tail(lines), <<lines[1]>>), "\n")

-----------------------------------------------------------------------------
(* ast_mapper.py: the traversal *)

\* tree-sitter rows are 0-based, lines are 1-based.
node_start_line(t, n) == t.start_row[n] + 1
node_end_line(t, n) == t.end_row[n] + 1

\* set(range(node_start_line, node_end_line + 1))
node_lines(t, n) == node_start_line(t, n)..node_end_line(t, n)

\* A mapper that takes every changed line as the node's.
OverlappingLines_AllChanged(lines, changed) == changed

\* overlapping_lines = node_lines & changed_lines
OverlappingLines(lines, changed) == lines \cap changed

\* A traversal without the early return.
Prunes_Never(overlapping) == FALSE

\* "if not overlapping_lines: return"
Prunes(overlapping) == overlapping = {}

\* A traversal that never finds a range in seen_ranges.
RangeSeen_Never(range_key, seen_ranges) == FALSE

\* "if range_key not in seen_ranges" negated
RangeSeen(range_key, seen_ranges) == range_key \in seen_ranges

\* A refinement that does not look at the parent.
RefineCategory_NoParentTest(category, parent) ==
    IF category = "function" THEN "method" ELSE category

\* "if category == 'function' and parent: category = 'method'"
RefineCategory(category, parent) ==
    IF category = "function" /\ Truthy(parent) THEN "method" ELSE category

\* sorted(S) of a set of integers
RECURSIVE Sorted(_)
Sorted(S) ==
    IF S = {} THEN <<>>
    ELSE LET m == CHOOSE x \in S : \A y \in S : x <= y
         IN  <<m>> \o Sorted(S \ {m})

\* The ASTNode appended for node n (signature and content, two strings cut
\* from the source bytes, are not part of the model's record).
MakeASTNode(t, n, language, overlapping) ==
    LET parent == _get_parent_name(t, n)
    IN  [type |-> RefineCategory(_categorize_node_type(t.type[n], language), parent),
         name |-> _get_node_name(t, n),
         line_start |-> node_start_line(t, n),
         line_end |-> node_end_line(t, n),
         change_type |-> "modified",
         diff_lines |-> Sorted(overlapping),
         parent |-> parent]

\* A traversal in which a later node with a seen range takes the record over.
RecordNode_LastWins(t, n, changed, language, st) ==
    LET overlapping == OverlappingLines(node_lines(t, n), changed)
        category == _categorize_node_type(t.type[n], language)
        range_key == <<node_start_line(t, n), node_end_line(t, n)>>
        old == st.results
    IN  IF category = None THEN st
        ELSE IF range_key \in st.seen_ranges
        THEN [st EXCEPT !.results =
                 [i \in 1..Len(old) |->
                     IF <<old[i].line_start, old[i].line_end>> = range_key
                     THEN MakeASTNode(t, n, language, overlapping) ELSE old[i]]]
        ELSE [st EXCEPT !.seen_ranges = @ \cup {range_key},
                        !.results = Append(@, MakeASTNode(t, n, language, overlapping))]

\* What the body of _find_containing_nodes does at node n before it
\* recurses: st holds results, seen_ranges and the log of calls.
RecordNode(t, n, changed, language, st) ==
    LET overlapping == OverlappingLines(node_lines(t, n), changed)
        category == _categorize_node_type(t.type[n], language)
        range_key == <<node_start_line(t, n), node_end_line(t, n)>>
    IN  IF category # None /\ ~RangeSeen(range_key, st.seen_ranges)
        THEN [st EXCEPT !.seen_ranges = @ \cup {range_key},
                        !.results = Append(@, MakeASTNode(t, n, language, overlapping))]
        ELSE st

RECURSIVE _find_containing_nodes(_, _, _, _, _)
RECURSIVE FindInChildren(_, _, _, _, _)

_find_containing_nodes(t, n, changed, language, st) ==
    LET called == [st EXCEPT !.visited = Append(@, n)]
    IN  IF Prunes(OverlappingLines(node_lines(t, n), changed))
        THEN called
        ELSE FindInChildren(t, KidSeq(t, n), changed, language,
                            RecordNode(t, n, changed, language, called))

\* "for child in node.children: _find_containing_nodes(child, ...)".  A leaf
\* token has no children and a type no taxonomy lists, so the call on it
\* changes neither results nor seen_ranges; only the structural children
\* are walked.
FindInChildren(t, kids, changed, language, st) ==
    IF kids = <<>> THEN st
    ELSE FindInChildren(t, Tail(kids), changed, language,
                        _find_containing_nodes(t, Head(kids), changed, language, st))

-----------------------------------------------------------------------------
(* ast_mapper.py: map_changes_to_ast *)

\* A sort keyed on the end line.
SortKey_LineEnd(node) == node.line_end

\* key=lambda n: n.line_start
SortKey(node) == node.line_start

\* list.sort is stable: x goes after every element whose key is not larger.
RECURSIVE InsertSorted(_, _)
InsertSorted(s, x) ==
    IF s = <<>> THEN <<x>>
    ELSE IF SortKey(x) < SortKey(Head(s)) THEN <<x>> \o s
    ELSE <<Head(s)>> \o InsertSorted(Tail(s), x)

RECURSIVE SortResults(_)
SortResults(s) ==
    IF s = <<>> THEN <<>>
    ELSE InsertSorted(SortResults(SubSeq(s, 1, Len(s) - 1)), s[Len(s)])

\* The inner loop's test: node lies inside other, with one end strictly
\* inside, and node's diff lines are all diff lines of other.
IsContained(results, i) ==
    \E j \in 1..Len(results) :
        /\ j # i
        /\ results[j].line_start <= results[i].line_start
        /\ results[i].line_end <= results[j].line_end
        /\ \/ results[j].line_start < results[i].line_start
           \/ results[i].line_end < results[j].line_end
        /\ SeqToSet(results[i].diff_lines)
             = SeqToSet(results[j].diff_lines) \cap SeqToSet(results[i].diff_lines)

RECURSIVE FilterFrom(_, _)
FilterFrom(results, i) ==
    IF i > Len(results) THEN <<>>
    ELSE IF IsContained(results, i) THEN FilterFrom(results, i + 1)
    ELSE <<results[i]>> \o FilterFrom(results, i + 1)

FilteredResults(results) == FilterFrom(results, 1)

\* A mapper that returns the containment pass's list.
ReturnValue_Filtered(results, filtered) == filtered

\* "return results"
ReturnValue(results, filtered) == results

\* source_code is "" exactly when the tree has no node.
SourceEmpty(t) == Len(t.parent) = 0

EmptyRun == [visited |-> <<>>, emitted |-> <<>>, filtered |-> <<>>, returned |-> <<>>]

\* map_changes_to_ast, with what it computed on the way.
map_changes_to_ast(t, changed, language) ==
    IF SourceEmpty(t) \/ changed = {} THEN EmptyRun
    ELSE LET st == _find_containing_nodes(t, 1, changed, language,
                       [results |-> <<>>, seen_ranges |-> {}, visited |-> <<>>])
             results == SortResults(st.results)
             filtered == FilteredResults(results)
         IN  [visited |-> st.visited, emitted |-> st.results,
              filtered |-> filtered, returned |-> ReturnValue(results, filtered)]

-----------------------------------------------------------------------------
(* The mapper called on one source file *)

\* The ordered trees of up to four nodes, as parent vectors in pre-order.
Shapes == { <<0>>, <<0, 1>>, <<0, 1, 1>>, <<0, 1, 2>>,
            <<0, 1, 1, 1>>, <<0, 1, 1, 2>>, <<0, 1, 1, 3>>, <<0, 1, 2, 1>>,
            <<0, 1, 2, 2>>, <<0, 1, 2, 3>> }

Rows == 0..(MaxLine - 1)

\* What a parser's tree guarantees: a node ends no earlier than it starts,
\* the root spans the file, a child lies within its parent, and a later
\* sibling starts no earlier than the one before it ends.
WellFormed(shape, sr, er) ==
    /\ \A n \in 1..Len(shape) : sr[n] <= er[n]
    /\ sr[1] = 0 /\ er[1] = MaxLine - 1
    /\ \A n \in 2..Len(shape) :
          /\ sr[shape[n]] <= sr[n]
          /\ er[n] <= er[shape[n]]
    /\ \A m, n \in 2..Len(shape) :
          (m < n /\ shape[m] = shape[n]) => er[m] <= sr[n]

Tok(type, text) == [type |-> type, text |-> text, children |-> <<>>]

EmptySource == [parent |-> <<>>, type |-> <<>>, start_row |-> <<>>,
                end_row |-> <<>>, toks |-> <<>>]

\* Python sources: a module of functions, classes and blocks, each function
\* and class with its identifier.
PyTypes == {"function_definition", "class_definition", "block"}

PyToks(type) == IF type = "block" THEN <<>> ELSE <<Tok("identifier", "A")>>

cliIdle ==
    /\ from_ref = None /\ working = FALSE
    /\ git_outcome = None /\ diff_result = None /\ file_changes = <<>>
    /\ idx = 0 /\ reads = <<>> /\ file_outputs = <<>> /\ echoed = <<>> /\ report = <<>>
    /\ exit_code = -1

mapIdle ==
    /\ visited = <<>> /\ emitted = <<>> /\ filtered_results = <<>>
    /\ returned = <<>>

fnIdle == fn_arg = None /\ fn_result = None

Init ==
    /\ pc = "call"
    /\ lang = "python"
    /\ changed_lines \in SUBSET (1..MaxLine)
    /\ \/ tree = EmptySource
       \/ \E shape \in Shapes :
            \E sr \in [1..Len(shape) -> Rows], er \in [1..Len(shape) -> Rows] :
              /\ WellFormed(shape, sr, er)
              /\ \E ty \in [2..Len(shape) -> PyTypes] :
                    tree = [parent |-> shape,
                            type |-> [n \in 1..Len(shape) |-> IF n = 1 THEN "module" ELSE ty[n]],
                            start_row |-> sr, end_row |-> er,
                            toks |-> [n \in 1..Len(shape) |->
                                        IF n = 1 THEN <<>> ELSE PyToks(ty[n])]]
    /\ mapIdle
    /\ cliIdle
    /\ fnIdle

\* One call of map_changes_to_ast(source_code, changed_lines, lang_info).
MapChangesToAst ==
    /\ pc = "call"
    /\ LET run == map_changes_to_ast(tree, changed_lines, lang)
       IN  /\ visited' = run.visited
           /\ emitted' = run.emitted
           /\ filtered_results' = run.filtered
           /\ returned' = run.returned
    /\ pc' = "returned"
    /\ UNCHANGED <<lang, tree, changed_lines, cliVars, fnVars>>

Next == MapChangesToAst

Spec == Init /\ [][Next]_vars

-----------------------------------------------------------------------------
(* The mapper called under every taxonomy *)

RECURSIVE TableTypes(_)
TableTypes(table) ==
    IF table = <<>> THEN {} ELSE SeqToSet(Head(table).types) \cup TableTypes(Tail(table))

\* The node types a tree of the language is built from here: every type
\* its taxonomy lists, and one it does not.
TreeTypes(language) == TableTypes(NODE_TYPES(language)) \cup {"block"}

NodeName(n) == IF n = 2 THEN "A" ELSE IF n = 3 THEN "B" ELSE "C"

\* A node has no name-bearing child, or an identifier child with the
\* node's own name, or an identifier child of zero width (a MISSING node,
\* which the parser's error recovery inserts; its text is empty).
TokChoices(n) == { <<>>, <<Tok("identifier", NodeName(n))>>, <<Tok("identifier", "")>> }

\* A root over three nested constructs on lines 1-3, 2-3 and 2, with line
\* 2 changed: every construct overlaps and has a range of its own.
InitTaxonomy ==
    /\ pc = "call"
    /\ lang \in GrammarLanguages
    /\ changed_lines = {2}
    /\ \E ty \in [2..4 -> TreeTypes(lang)] :
         \E t2 \in TokChoices(2), t3 \in TokChoices(3), t4 \in TokChoices(4) :
            tree = [parent |-> <<0, 1, 2, 3>>,
                    type |-> <<"root", ty[2], ty[3], ty[4]>>,
                    start_row |-> <<0, 0, 1, 1>>,
                    end_row |-> <<2, 2, 2, 1>>,
                    toks |-> <<<<>>, t2, t3, t4>>]
    /\ mapIdle
    /\ cliIdle
    /\ fnIdle

SpecTaxonomy == InitTaxonomy /\ [][Next]_vars

-----------------------------------------------------------------------------
(* _get_node_name called on one node *)

\* The children of a variable_declarator, by type: "a = () => 1", "{a} = b",
\* "{a} = f()", "a = b".
DeclaratorShapes == { <<"identifier", "=", "arrow_function">>,
                      <<"object_pattern", "=", "identifier">>,
                      <<"object_pattern", "=", "call_expression">>,
                      <<"identifier", "=", "identifier">> }

\* What a child of the node can be: a token of one of the four name types,
\* a token of another type, or a variable_declarator of one of the shapes.
ChildKinds ==
    { <<ty>> : ty \in NameChildTypes \cup {"parameters"} }
        \cup { <<"variable_declarator", sh>> : sh \in DeclaratorShapes }

\* The i-th child of the node, of the given kind.  Every token's text tells
\* where it stands: "c2" is the second child, "c2.1" its first child.
MakeChild(kind, i) ==
    IF kind[1] = "variable_declarator"
    THEN [type |-> "variable_declarator", text |-> "c" \o ToString(i),
          children |-> [j \in 1..Len(kind[2]) |->
                           Tok(kind[2][j], "c" \o ToString(i) \o "." \o ToString(j))]]
    ELSE Tok(kind[1], "c" \o ToString(i))

\* A tree of one node with up to MaxChildren children.
InitNames ==
    /\ pc = "name_call"
    /\ lang = None /\ changed_lines = {}
    /\ \E k \in 0..MaxChildren :
          \E kinds \in [1..k -> ChildKinds] :
             tree = [parent |-> <<0>>, type |-> <<"node">>,
                     start_row |-> <<0>>, end_row |-> <<0>>,
                     toks |-> << [i \in 1..k |-> MakeChild(kinds[i], i)] >>]
    /\ fn_arg = [node |-> 1] /\ fn_result = None
    /\ mapIdle
    /\ cliIdle

\* One call of _get_node_name(node, language).
GetNodeName ==
    /\ pc = "name_call"
    /\ fn_result' = _get_node_name(tree, fn_arg.node)
    /\ pc' = "named"
    /\ UNCHANGED <<mapVars, cliVars, fn_arg>>

NextNames == GetNodeName

SpecNames == InitNames /\ [][NextNames]_vars

-----------------------------------------------------------------------------
(* _get_signature called on one node *)

\* The lines a node's text is made of: a plain line, a line with a brace
\* and blanks around the text before it, a line that ends with a colon and
\* a trailing blank.
LineChoices == { <<"f">>, <<" ", "g", " ", "{", "h">>, <<"k", ":", " ">> }

\* What comes before the node in the file: nothing, or one line.
Prefixes == { <<>>, <<"x", "\n">> }

\* A source whose last 1..MaxNodeLines lines are the node.
InitSignature ==
    /\ pc = "signature_call"
    /\ lang = None /\ tree = EmptySource /\ changed_lines = {}
    /\ \E k \in 1..MaxNodeLines :
          \E lines \in [1..k -> LineChoices], prefix \in Prefixes,
             language \in {"python", "go"} :
             fn_arg = [source_bytes |-> prefix \o Join(lines, "\n"),
                       start_byte |-> Len(prefix),
                       end_byte |-> Len(prefix \o Join(lines, "\n")),
                       language |-> language]
    /\ fn_result = None
    /\ mapIdle
    /\ cliIdle

\* One call of _get_signature(node, source_bytes, language).
GetSignature ==
    /\ pc = "signature_call"
    /\ fn_result' = _get_signature(fn_arg.source_bytes, fn_arg.start_byte,
                                   fn_arg.end_byte, fn_arg.language)
    /\ pc' = "signed"
    /\ UNCHANGED <<mapVars, cliVars, fn_arg>>

NextSignature == GetSignature

SpecSignature == InitSignature /\ [][NextSignature]_vars

-----------------------------------------------------------------------------
(* git.py, diff_parser.py, output.py *)

\* "if from_ref: ... elif working: ... else: ..."
DiffModeOf(from, w) ==
    IF Truthy(from) THEN "commits" ELSE IF w THEN "working" ELSE "staged"

\* The DiffResult run_git_diff builds once get_repo_root has succeeded;
\* stdout is what the git diff process wrote, whatever its exit status.
\* (--to is not given in the model's runs: target_ref is None.)
run_git_diff(mode, from, stdout) ==
    [diff_type |-> mode,
     base_ref |-> IF mode = "commits" THEN from ELSE "HEAD",
     target_ref |-> None,
     diff_text |-> stdout]

\* A diff text is blank (empty after strip) or holds file patches, each
\* with what unidiff's PatchedFile tells about it.
BlankText == [blank |-> TRUE, patches |-> <<>>]

FileStatusOf(patch) ==
    IF patch.is_added_file THEN "added"
    ELSE IF patch.is_removed_file THEN "deleted"
    ELSE "modified"

\* parse_diff; the ChangedLine list, which main does not read, is left out.
parse_diff(diff_text) ==
    IF diff_text.blank THEN <<>>
    ELSE [i \in 1..Len(diff_text.patches) |->
            [path |-> diff_text.patches[i].path,
             status |-> FileStatusOf(diff_text.patches[i]),
             added_line_numbers |-> diff_text.patches[i].added,
             deleted_line_numbers |-> diff_text.patches[i].removed]]

\* A loop that leaves the mapper's change_type as it is.
SetChangeType_Keep(node, status) == node

\* "node.change_type = 'added' if the file is ADDED, else 'modified'"
SetChangeType(node, status) ==
    [node EXCEPT !.change_type = IF status = "added" THEN "added" ELSE "modified"]

\* create_file_output (create_change_output copies each field)
create_file_output(file_change, language, ast_nodes) ==
    [path |-> file_change.path,
     language |-> language,
     status |-> file_change.status,
     added_lines |-> Sorted(file_change.added_line_numbers),
     deleted_lines |-> Sorted(file_change.deleted_line_numbers),
     changes |-> ast_nodes]

create_diff_output(result, files) ==
    [diff_type |-> result.diff_type, base_ref |-> result.base_ref,
     target_ref |-> result.target_ref, files |-> files]

-----------------------------------------------------------------------------
(* cli.py: main *)

\* A revision git knows, and one it does not.
Refs == {None, "HEAD~1", "nosuchrev"}

Paths == { [stem |-> "a", suffix |-> ".py"], [stem |-> "b", suffix |-> ".txt"],
           [stem |-> "c", suffix |-> ".java"] }

\* The added lines of a file that is not deleted.
AddedSets == { {}, {2}, {1, 2} }

Patches ==
    { [path |-> p, is_added_file |-> FALSE, is_removed_file |-> TRUE,
       added |-> {}, removed |-> {1}] : p \in Paths }
    \cup
    { [path |-> p, is_added_file |-> a, is_removed_file |-> FALSE,
       added |-> ls, removed |-> {}] : p \in Paths, a \in BOOLEAN, ls \in AddedSets }

RECURSIVE SeqsUpTo(_, _)
SeqsUpTo(S, n) ==
    IF n = 0 THEN {<<>>}
    ELSE SeqsUpTo(S, n - 1) \cup
         {Append(q, x) : q \in {r \in SeqsUpTo(S, n - 1) : Len(r) = n - 1}, x \in S}

DiffTexts == {BlankText} \cup {[blank |-> FALSE, patches |-> ps] : ps \in SeqsUpTo(Patches, MaxFiles)}

\* The source of a Python file in the working tree: a class A on lines 1-2
\* with a function f on line 2.
ClassWithMethod ==
    [parent |-> <<0, 1, 2>>,
     type |-> <<"module", "class_definition", "function_definition">>,
     start_row |-> <<0, 0, 1>>, end_row |-> <<1, 1, 1>>,
     toks |-> <<<<>>, <<Tok("identifier", "A")>>, <<Tok("identifier", "f")>>>>]

\* What get_file_content does: the file is gone (None), read_text raises
\* (the bytes are not text in the locale's encoding), or the text is read.
ReadOutcomes == {"missing", "unreadable", "empty", "text"}

SourceOf(outcome) == IF outcome = "text" THEN ClassWithMethod ELSE EmptySource

InitCli ==
    /\ pc = "main"
    /\ from_ref \in Refs
    /\ working \in BOOLEAN
    /\ git_outcome = None /\ diff_result = None /\ file_changes = <<>>
    /\ idx = 0 /\ reads = <<>> /\ file_outputs = <<>> /\ echoed = <<>> /\ report = <<>>
    /\ exit_code = -1
    /\ lang = None /\ tree = EmptySource /\ changed_lines = {}
    /\ mapIdle
    /\ fnIdle

Exit(code, message) ==
    /\ pc' = "done"
    /\ exit_code' = code
    /\ echoed' = Append(echoed, message)

\* "try: diff_result = run_git_diff(...) except Exception: raise
\* click.ClickException", then the test of diff_text.  get_repo_root runs
\* git with check=True, the diff itself without.
RunGitDiff ==
    /\ pc = "main"
    /\ \/ /\ git_outcome' = "not_a_repository"
          /\ Exit(1, "Error: Failed to run git diff")
          /\ UNCHANGED diff_result
       \/ /\ from_ref = "nosuchrev"
          /\ git_outcome' = "bad_revision"
          /\ diff_result' = run_git_diff(DiffModeOf(from_ref, working), from_ref, BlankText)
          /\ Exit(0, "No changes detected.")
       \/ /\ from_ref # "nosuchrev"
          /\ git_outcome' = "ok"
          /\ \E stdout \in DiffTexts :
                /\ diff_result' = run_git_diff(DiffModeOf(from_ref, working), from_ref, stdout)
                /\ IF stdout.blank
                   THEN Exit(0, "No changes detected.")
                   ELSE pc' = "parse" /\ UNCHANGED <<exit_code, echoed>>
    /\ UNCHANGED <<from_ref, working, file_changes, idx, reads, file_outputs, report, mapVars, fnVars>>

\* "file_changes = parse_diff(...); if not file_changes: ... return"
ParseDiff ==
    /\ pc = "parse"
    /\ file_changes' = parse_diff(diff_result.diff_text)
    /\ IF file_changes' = <<>>
       THEN Exit(0, "No file changes parsed.") /\ UNCHANGED idx
       ELSE pc' = "loop" /\ idx' = 1 /\ UNCHANGED <<exit_code, echoed>>
    /\ UNCHANGED <<from_ref, working, git_outcome, diff_result, reads, file_outputs, report, mapVars, fnVars>>

\* One pass of "for file_change in file_changes".  Nothing in the loop
\* catches an exception: one raised by get_file_content ends the process
\* with a traceback.
ProcessFile ==
    /\ pc = "loop"
    /\ idx <= Len(file_changes)
    /\ \E loads \in BOOLEAN :
       LET file_change == file_changes[idx]
           language == detect_language(file_change.path)
           lang_info == IF language # None THEN get_language_info(language, loads) ELSE None
       IN  IF lang_info # None /\ file_change.status # "deleted"
           THEN \E outcome \in ReadOutcomes :
                  /\ reads' = Append(reads, outcome)
                  /\ IF outcome = "unreadable"
                     THEN /\ Exit(1, "Traceback")
                          /\ UNCHANGED <<idx, file_outputs>>
                     ELSE LET source_code == SourceOf(outcome)
                              mapped == map_changes_to_ast(source_code,
                                            file_change.added_line_numbers, lang_info).returned
                              ast_nodes == IF SourceEmpty(source_code) THEN <<>>
                                           ELSE [k \in 1..Len(mapped) |->
                                                   SetChangeType(mapped[k], file_change.status)]
                          IN  /\ file_outputs' = Append(file_outputs,
                                     create_file_output(file_change, language, ast_nodes))
                              /\ idx' = idx + 1
                              /\ UNCHANGED <<pc, exit_code, echoed>>
           ELSE /\ reads' = Append(reads, "not_read")
                /\ file_outputs' = Append(file_outputs,
                       create_file_output(file_change, language, <<>>))
                /\ idx' = idx + 1
                /\ UNCHANGED <<pc, exit_code, echoed>>
    /\ UNCHANGED <<from_ref, working, git_outcome, diff_result, file_changes, report, mapVars, fnVars>>

\* After the loop: the report goes to stdout or to the output file.
WriteOutput ==
    /\ pc = "loop"
    /\ idx > Len(file_changes)
    /\ \E stdout \in BOOLEAN :
          /\ report' = <<[to_stdout |-> stdout,
                          output |-> create_diff_output(diff_result, file_outputs)]>>
          /\ Exit(0, IF stdout THEN "report" ELSE "Diff output written to")
    /\ UNCHANGED <<from_ref, working, git_outcome, diff_result, file_changes, idx,
                   reads, file_outputs, mapVars, fnVars>>

NextCli == RunGitDiff \/ ParseDiff \/ ProcessFile \/ WriteOutput

SpecCli == InitCli /\ [][NextCli]_vars

-----------------------------------------------------------------------------
(* Properties of one mapper call *)

Nodes == 1..Len(tree.parent)
Range(n) == <<node_start_line(tree, n), node_end_line(tree, n)>>
RangeOf(r) == <<r.line_start, r.line_end>>
Category(n) == _categorize_node_type(tree.type[n], lang)
Overlaps(n) == node_lines(tree, n) \cap changed_lines # {}
Called(n) == Contains(visited, n)
VisitIndex(n) == CHOOSE k \in 1..Len(visited) : visited[k] = n
Records == 1..Len(returned)

RECURSIVE IsAncestor(_, _)
IsAncestor(a, n) ==
    IF n = 0 \/ tree.parent[n] = 0 THEN FALSE
    ELSE tree.parent[n] = a \/ IsAncestor(a, tree.parent[n])

\* n is the first node the traversal met that is categorized and has its range.
FirstWithRange(n) ==
    /\ Called(n) /\ Overlaps(n) /\ Category(n) # None
    /\ \A m \in Nodes :
          (Called(m) /\ Category(m) # None /\ Range(m) = Range(n) /\ m # n)
             => VisitIndex(n) < VisitIndex(m)

\* The node a returned record was made from.
NodeOf(r) == CHOOSE n \in Nodes : FirstWithRange(n) /\ Range(n) = RangeOf(r)

StrictlyInside(r, o) ==
    /\ o.line_start <= r.line_start /\ r.line_end <= o.line_end
    /\ RangeOf(r) # RangeOf(o)

\* C1: every returned record's diff_lines is non-empty, holds exactly the
\* changed lines inside [line_start, line_end], and lists them ascending.
C1_TouchedLines ==
    pc = "returned" =>
        \A i \in Records :
            LET r == returned[i]
            IN  /\ r.diff_lines # <<>>
                /\ SeqToSet(r.diff_lines) \subseteq (r.line_start..r.line_end) \cap changed_lines
                /\ SeqToSet(r.diff_lines) = {l \in changed_lines : r.line_start <= l /\ l <= r.line_end}
                /\ \A a, b \in 1..Len(r.diff_lines) : a < b => r.diff_lines[a] < r.diff_lines[b]

\* A call that returned a record touching two lines and a record that
\* leaves a changed line outside its range.
C1_Witness ==
    /\ pc = "returned"
    /\ \E i, j \in Records :
          /\ Len(returned[i].diff_lines) >= 2
          /\ SeqToSet(returned[j].diff_lines) # changed_lines

\* C2: no two records returned by one call have the same (line_start, line_end).
C2_UniqueRanges ==
    pc = "returned" =>
        \A i, j \in Records : i # j => RangeOf(returned[i]) # RangeOf(returned[j])

\* Two categorized nodes with the same range were both reached, and the
\* call returned at least two records.
C2_Witness ==
    /\ pc = "returned"
    /\ Len(returned) >= 2
    /\ \E m, n \in Nodes :
          /\ m # n /\ Called(m) /\ Called(n) /\ Overlaps(n)
          /\ Category(m) # None /\ Category(n) # None
          /\ Range(m) = Range(n)

\* C5: a node whose line range holds no changed line yields no record, nor
\* does any descendant, and the traversal is never called on a descendant.
C5_Pruning ==
    pc = "returned" =>
        \A n \in Nodes :
            ~Overlaps(n) =>
                /\ \A i \in Records : RangeOf(returned[i]) # Range(n)
                /\ \A d \in Nodes :
                      IsAncestor(n, d) =>
                          /\ ~Called(d)
                          /\ \A i \in Records : RangeOf(returned[i]) # Range(d)

\* The traversal was called on a categorized node without changed lines that
\* has a categorized child, and the call still returned a record.
C5_Witness ==
    /\ pc = "returned"
    /\ returned # <<>>
    /\ \E n, d \in Nodes :
          /\ Called(n) /\ ~Overlaps(n) /\ Category(n) # None
          /\ tree.parent[d] = n /\ Category(d) # None /\ ~Called(d)

\* C6: the call returns every record the traversal made: each categorized,
\* overlapping node that is the first with its range has its record in the
\* returned list, the list has no other entries, and a record nested in
\* another record is returned with it.
C6_Unfiltered ==
    pc = "returned" =>
        /\ \A n \in Nodes :
              FirstWithRange(n) =>
                  \E i \in Records :
                      /\ RangeOf(returned[i]) = Range(n)
                      /\ returned[i].name = _get_node_name(tree, n)
                      /\ returned[i].type = RefineCategory(Category(n), _get_parent_name(tree, n))
        /\ Len(returned) = Cardinality({n \in Nodes : FirstWithRange(n)})
        /\ \A k \in 1..Len(emitted) : Contains(returned, emitted[k])

\* The call returned a record strictly nested in another returned record,
\* which the containment pass had dropped from its own list.
C6_Witness ==
    /\ pc = "returned"
    /\ \E i, j \in Records :
          /\ StrictlyInside(returned[i], returned[j])
          /\ ~Contains(filtered_results, returned[i])

\* C7: the returned list ascends by line_start, and records with the same
\* line_start are in the order the traversal met their nodes.
C7_Ordering ==
    pc = "returned" =>
        \A i, j \in Records :
            i < j =>
                /\ returned[i].line_start <= returned[j].line_start
                /\ returned[i].line_start = returned[j].line_start
                      => VisitIndex(NodeOf(returned[i])) < VisitIndex(NodeOf(returned[j]))

\* The call returned an enclosing record, then a record nested in it that
\* starts on the same line, then a record that starts later.
C7_Witness ==
    /\ pc = "returned"
    /\ \E i, j, k \in Records :
          /\ i < j /\ j < k
          /\ returned[i].line_start = returned[j].line_start
          /\ IsAncestor(NodeOf(returned[i]), NodeOf(returned[j]))
          /\ returned[j].line_start < returned[k].line_start

\* C3 as claimed: every record of category 'method' has a parent name.
C3_MethodHasParent ==
    pc = "returned" =>
        \A i \in Records : returned[i].type = "method" => returned[i].parent # None

\* C3 amended: a record of category 'method' has a parent name, unless the
\* taxonomy itself puts its node's type under 'method'; and a node the
\* taxonomy puts under 'function' that has no parent name stays 'function'.
C3_MethodHasParentOrIsListed ==
    pc = "returned" =>
        \A i \in Records :
            LET r == returned[i]
            IN  /\ r.type = "method" =>
                      r.parent # None \/ Category(NodeOf(r)) = "method"
                /\ (Category(NodeOf(r)) = "function" /\ r.parent = None) =>
                      r.type = "function"

\* The call returned a top-level function as 'function' and a function
\* inside a named class-like construct as 'method'.
C3_Witness ==
    /\ pc = "returned"
    /\ \E i, j \in Records :
          /\ Category(NodeOf(returned[i])) = "function"
          /\ returned[i].type = "function" /\ returned[i].parent = None
          /\ Category(NodeOf(returned[j])) = "function"
          /\ returned[j].type = "method" /\ returned[j].parent # None

\* C4 as claimed: a node the taxonomy puts under 'function' whose parent
\* walk yields a name is reported as 'method' with that name, and no record
\* has category 'function' together with a parent.
C4_FunctionWithParentIsMethod ==
    pc = "returned" =>
        \A i \in Records :
            LET r == returned[i]
            IN  /\ r.parent = _get_parent_name(tree, NodeOf(r))
                /\ (Category(NodeOf(r)) = "function" /\ r.parent # None) => r.type = "method"
                /\ ~(r.type = "function" /\ r.parent # None)

\* An ancestor that can be a parent: of a class-like type, with a name other
\* than the sentinel.
NamedClassLike(a) ==
    tree.type[a] \in ClassLikeTypes /\ _get_node_name(tree, a) # ANONYMOUS

\* a is the nearest strict ancestor of n that can be a parent.
NearestNamedClassLike(a, n) ==
    /\ IsAncestor(a, n) /\ NamedClassLike(a)
    /\ \A b \in Nodes :
          (IsAncestor(b, n) /\ NamedClassLike(b) /\ b # a) => IsAncestor(b, a)

\* C11: the parent of every node, and of every returned record, is the name
\* of the nearest strict ancestor that is class-like and not anonymous (an
\* anonymous class-like ancestor in between is passed over, the node itself
\* is never the parent), and is absent exactly when there is no such ancestor.
C11_NearestNamedAncestor ==
    pc = "returned" =>
        /\ \A n \in Nodes :
              LET p == _get_parent_name(tree, n)
              IN  /\ p # None =>
                        \E a \in Nodes :
                            NearestNamedClassLike(a, n) /\ p = _get_node_name(tree, a)
                  /\ p = None => ~\E a \in Nodes : IsAncestor(a, n) /\ NamedClassLike(a)
        /\ \A i \in Records :
              returned[i].parent = _get_parent_name(tree, NodeOf(returned[i]))

\* The call returned a record whose parent is the outer, named class-like
\* construct although an anonymous class-like construct lies in between,
\* and a record of that named construct itself, without a parent.
C11_Witness ==
    /\ pc = "returned"
    /\ \E i, j \in Records :
          LET n == NodeOf(returned[i])
              a == NodeOf(returned[j])
          IN  /\ NamedClassLike(a) /\ returned[j].parent = None
              /\ IsAncestor(a, n)
              /\ returned[i].parent = _get_node_name(tree, a)
              /\ Truthy(returned[i].parent)
              /\ \E b \in Nodes :
                    /\ IsAncestor(a, b) /\ IsAncestor(b, n)
                    /\ tree.type[b] \in ClassLikeTypes
                    /\ _get_node_name(tree, b) = ANONYMOUS

\* a and n are categorized nodes on one root-to-leaf path, a above n, with
\* the same line range, and the range holds a changed line.
NestedSameRange(a, n) ==
    /\ IsAncestor(a, n)
    /\ Category(a) # None /\ Category(n) # None
    /\ Range(a) = Range(n) /\ Overlaps(n)

\* a is the outermost categorized node of its path with its range.
Outermost(a) ==
    ~\E m \in Nodes : IsAncestor(m, a) /\ Category(m) # None /\ Range(m) = Range(a)

\* The returned records with the range of node n.
RecordsWithRange(n) == {i \in Records : RangeOf(returned[i]) = Range(n)}

\* C14 as claimed: of the categorized nodes of one path with the same range,
\* the outermost gets the record and the nested ones get none.
C14_OutermostGetsRecord ==
    pc = "returned" =>
        \A a, n \in Nodes :
            (NestedSameRange(a, n) /\ Outermost(a)) =>
                /\ FirstWithRange(a)
                /\ \A i \in RecordsWithRange(n) :
                      returned[i] = MakeASTNode(tree, a, lang, node_lines(tree, a) \cap changed_lines)

\* C14 amended: of the categorized nodes of one path with the same range,
\* no nested one gets a record: the one record with that range is made
\* from the first categorized node with the range in pre-order over the
\* whole tree, which is the outermost of the path or a node visited before
\* the path's nodes (a construct that precedes them on the same lines).
\* The traversal still reaches the nested node and each of its children.
C14_FirstInPreorderGetsRecord ==
    pc = "returned" =>
        \A a, n \in Nodes :
            NestedSameRange(a, n) =>
                /\ Called(n)
                /\ \A d \in Nodes : tree.parent[d] = n => Called(d)
                /\ Cardinality(RecordsWithRange(n)) = 1
                /\ ~FirstWithRange(n)
                /\ \A i \in RecordsWithRange(n) :
                      LET f == NodeOf(returned[i])
                      IN  /\ VisitIndex(f) < VisitIndex(n)
                          /\ returned[i] = MakeASTNode(tree, f, lang,
                                               node_lines(tree, f) \cap changed_lines)
                          /\ \/ f = a /\ Outermost(a)
                             \/ IsAncestor(f, a) /\ Outermost(f)
                             \/ ~IsAncestor(f, n) /\ VisitIndex(f) < VisitIndex(a)

\* A class holds a function with the class's range, which holds a function
\* with a smaller range: the call returned the class's record and the inner
\* function's record, and no record of the function between them.
C14_Witness ==
    /\ pc = "returned"
    /\ \E a, n, d \in Nodes :
          /\ NestedSameRange(a, n) /\ Outermost(a)
          /\ tree.type[a] = "class_definition" /\ tree.type[n] = "function_definition"
          /\ tree.parent[d] = n /\ Category(d) # None /\ Range(d) # Range(n)
          /\ \E i, j \in Records :
                /\ RangeOf(returned[i]) = Range(a) /\ returned[i].type = "class"
                /\ RangeOf(returned[j]) = Range(d) /\ NodeOf(returned[j]) = d
          /\ Len(returned) = 2

-----------------------------------------------------------------------------
(* Properties of one call of _get_node_name *)

\* A child that yields a name: a token of one of the four name types, or a
\* variable_declarator with an identifier or name child.
Yields(c) ==
    \/ c.type \in NameChildTypes
    \/ /\ c.type = "variable_declarator"
       /\ \E j \in 1..Len(c.children) : c.children[j].type \in {"identifier", "name"}

\* The name such a child yields.
YieldedName(c) ==
    IF c.type \in NameChildTypes THEN c.text
    ELSE LET j == CHOOSE j \in 1..Len(c.children) :
                     /\ c.children[j].type \in {"identifier", "name"}
                     /\ \A h \in 1..(j - 1) : c.children[h].type \notin {"identifier", "name"}
         IN  c.children[j].text

-----------------------------------------------------------------------------
(* Properties of one call of _get_signature *)

\* The lines of the node's text and of the signature.
NodeLines == Split(SubSeq(fn_arg.source_bytes, fn_arg.start_byte + 1, fn_arg.end_byte), "\n")
SignatureLines == Split(fn_result, "\n")

\* The call is the claim's case: a brace-delimited language and a first
\* line without a brace.
BraceCase == fn_arg.language # "python" /\ ~HasBrace(NodeLines[1])

\* C13 as claimed: in that case the signature has at most 5 lines, and when
\* one of the node's first 5 lines has a brace, the signature is the lines
\* before the first such line followed by that line's text up to the brace.
C13_SignatureAtMostFiveLines ==
    (pc = "signed" /\ BraceCase) =>
        /\ Len(SignatureLines) <= 5
        /\ \A k \in 2..5 :
              (/\ k <= Len(NodeLines) /\ HasBrace(NodeLines[k])
               /\ \A h \in 2..(k - 1) : ~HasBrace(NodeLines[h]))
                  => fn_result = Join(SubSeq(NodeLines, 1, k - 1)
                                        \o <<BeforeBrace(NodeLines[k])>>, "\n")

-----------------------------------------------------------------------------
(* Properties of one run of main *)

\* C8 as claimed: once the diff has parsed to files, a file whose source
\* cannot be read does not abort the run: the run ends with a report that
\* lists every file of the diff, that file with an empty change list.
C8_FileFailureDoesNotAbort ==
    (pc = "done" /\ file_changes # <<>>) =>
        /\ exit_code = 0
        /\ report # <<>>
        /\ Len(report[1].output.files) = Len(file_changes)
        /\ \A i \in 1..Len(reads) :
              reads[i] = "unreadable" => report[1].output.files[i].changes = <<>>

\* C9 as claimed: a failed diff (no repository, unknown revision) ends the
\* run with a non-zero exit and no report, and the run says "No changes
\* detected." only after a diff that succeeded with blank text.
C9_DiffFailureIsHardError ==
    pc = "done" =>
        /\ git_outcome \in {"not_a_repository", "bad_revision"} =>
              exit_code # 0 /\ report = <<>>
        /\ Contains(echoed, "No changes detected.") =>
              exit_code = 0 /\ git_outcome = "ok" /\ diff_result.diff_text.blank

\* C10: every record of a processed file, and of the report, has
\* change_type 'added' when the file's status is added and 'modified'
\* otherwise.
C10_ChangeTypePerFile ==
    LET PerFile(files) ==
            \A i \in 1..Len(files) :
                \A k \in 1..Len(files[i].changes) :
                    files[i].changes[k].change_type
                        = IF files[i].status = "added" THEN "added" ELSE "modified"
    IN  /\ PerFile(file_outputs)
        /\ report # <<>> => PerFile(report[1].output.files)

\* A report with an added file and a modified file, each with a record
\* that a changed line touches only in part.
C10_Witness ==
    /\ pc = "done" /\ report # <<>>
    /\ \E i, j \in 1..Len(report[1].output.files) :
          LET fa == report[1].output.files[i]
              fm == report[1].output.files[j]
          IN  /\ fa.status = "added" /\ fm.status = "modified"
              /\ \E k \in 1..Len(fa.changes) :
                    Len(fa.changes[k].diff_lines) < fa.changes[k].line_end - fa.changes[k].line_start + 1
              /\ fm.changes # <<>>

=============================================================================
